---- MODULE Spec2Model ----
(***************************************************************************)
(* Model of the paginated pull loops of dhudsmith/twitter_timeline:        *)
(*   TweetSearch.pull / TweetSearch.search_tweets (src/utils/tweet_search.py)*)
(*   Timeline.pull / Timeline.get_tweets          (src/utils/timeline.py)   *)
(* A pandas DataFrame is a sequence of rows, a row a sequence of cells     *)
(* (one cell per record placed side by side in that row), a cell a record  *)
(* or NaN.                                                                 *)
(***************************************************************************)
EXTENDS Integers, Sequences, FiniteSets, TLC

VARIABLES
    mode,           \* "search" (TweetSearch.pull) or "timeline" (Timeline.pull)
    save_format,    \* argument save_format
    has_refs,       \* 'referenced_tweets' in query_params.tweet_fields
    output_handle,  \* Timeline.pull argument output_handle
    max_results,    \* TweetSearch.pull argument max_results
    batch_size,     \* TweetSearch.pull argument batch_size
    batches,        \* the list batches
    bi,             \* position of the for loop in batches (next index)
    batch,          \* the loop variable batch / max_results of the call
    finished,       \* Timeline.pull local finished
    next_token,     \* local next_token
    num_collected,  \* local num_collected
    df_links, df_refs, df_users, df_tweets, df_media,
    links,          \* local links of the last decomposed page
    response,       \* local response
    retries,        \* local retries of search_tweets / get_tweets
    calls,          \* remote calls made by the running fetch
    call_token,     \* next_token parameter of the running / last fetch
    cycles,         \* fetch cycles started in this session
    paces,          \* pacing sleeps made in this session (search line 175)
    primary_seen,   \* primary records of the pages merged so far (history)
    files,          \* output files: name -> None or [format, rows]
    flushed,        \* the files as the last completed flush left them (history)
    dir_made,       \* os.mkdir(save_dir) done (timeline)
    err,            \* exception that left pull, "none" while there is none
    pc              \* position of the session

vars == <<mode, save_format, has_refs, output_handle, max_results, batch_size,
          batches, bi, batch, finished, next_token, num_collected,
          df_links, df_refs, df_users, df_tweets, df_media, links, response,
          retries, calls, call_token, cycles, paces, primary_seen, files,
          flushed, dir_made, err, pc>>

None    == [none |-> TRUE]     \* Python None where an object is expected
NoToken == "None"              \* Python None where a token is expected
NaN     == [nan |-> TRUE]      \* a missing cell of a DataFrame

-----------------------------------------------------------------------------
(* Bounds of the model *)

MaxTotal  == 45   \* planner specification: max_results in 1..MaxTotal
MaxCap    == 24   \* planner specification: batch_size in 1..MaxCap
MaxCycles == 2    \* timeline sessions are followed for at most MaxCycles fetches

-----------------------------------------------------------------------------
(* Sequence helpers *)

RECURSIVE SumSeq(_)
SumSeq(s) == IF s = <<>> THEN 0 ELSE s[1] + SumSeq(Tail(s))

Max(a, b) == IF a >= b THEN a ELSE b

SeqRange(s) == {s[i] : i \in 1..Len(s)}

-----------------------------------------------------------------------------
(* TweetSearch.pull, lines 52-60: the batch schedule *)

min_final_batch == 10

BatchesNoBorrowBack(total, cap) ==
    LET num_batches     == (total \div cap) + 1
        last_batch_size == total % cap
    IN  [i \in 1..num_batches |->
            IF last_batch_size < min_final_batch
            THEN IF i = num_batches THEN min_final_batch
                 ELSE IF i = num_batches - 1
                      THEN cap - min_final_batch
                      ELSE cap
            ELSE IF i = num_batches THEN last_batch_size ELSE cap]

BatchesKeepSmallRemainder(total, cap) ==
    LET num_batches     == (total \div cap) + 1
        last_batch_size == total % cap
    IN  [i \in 1..num_batches |->
            IF i = num_batches THEN last_batch_size ELSE cap]

Batches(total, cap) ==
    LET num_batches     == (total \div cap) + 1
        last_batch_size == total % cap
    IN  [i \in 1..num_batches |->
            IF last_batch_size < min_final_batch
            THEN IF i = num_batches THEN min_final_batch
                 ELSE IF i = num_batches - 1
                      THEN cap - (min_final_batch - last_batch_size)
                      ELSE cap
            ELSE IF i = num_batches THEN last_batch_size ELSE cap]

-----------------------------------------------------------------------------
(* What the remote API can return: the inputs of a session *)

Tokens == {"t1", "t2"}

\* a raw tweet of response.data: referenced_tweets is None or a list
tw1 == [id |-> 1, referenced_tweets |-> None]
tw2 == [id |-> 2, referenced_tweets |->
          [list |-> << [id |-> 3, type |-> "quoted"],
                       [id |-> 4, type |-> "replied_to"] >>]]

DataChoices == { <<>>, <<tw1>>, <<tw2>>, <<tw1, tw2>> }

\* expansion records: identity id, v stands for the other fields
us1  == [id |-> 11, v |-> "a"]
us1b == [id |-> 11, v |-> "b"]
us2  == [id |-> 12, v |-> "a"]
rt3  == [id |-> 3,  v |-> "a"]
md1  == [id |-> 21, v |-> "a"]

IncludesChoices ==
    { [tweets |-> <<>>,    users |-> <<>>,     media |-> <<>>],
      [tweets |-> <<>>,    users |-> <<us1>>,  media |-> <<>>],
      [tweets |-> <<rt3>>, users |-> <<>>,     media |-> <<>>],
      [tweets |-> <<>>,    users |-> <<us1b>>, media |-> <<md1>>],
      [tweets |-> <<rt3>>, users |-> <<us1, us2>>, media |-> <<md1>>] }

Responses ==
    [data : DataChoices, includes : IncludesChoices,
     next_token : Tokens \cup {NoToken}]

\* (max_results, batch_size) of the sessions followed: plans of 1, 2, 3
\* batches, and a zero and a negative max_results
SessionArgs == { <<5, 100>>, <<100, 100>>, <<250, 100>>, <<0, 100>>, <<-5, 100>> }

-----------------------------------------------------------------------------
(* pandas *)

\* pd.DataFrame(list of records): one row per record
DataFrame(list) == [rows |-> [i \in 1..Len(list) |-> <<list[i]>>]]

Width(rows) == IF rows = <<>> THEN 0 ELSE Len(rows[1])

NaNs(n) == [i \in 1..n |-> NaN]

\* pd.concat([a, b], axis = 0): the rows of b after the rows of a
ConcatAxis0(a, b) == [rows |-> a.rows \o b.rows]

\* pd.concat([a, b], axis = 1): row i of b beside row i of a, the shorter
\* frame padded with NaN
ConcatAxis1(a, b) ==
    LET n == Max(Len(a.rows), Len(b.rows))
    IN  [rows |-> [i \in 1..n |->
            (IF i <= Len(a.rows) THEN a.rows[i] ELSE NaNs(Width(a.rows))) \o
            (IF i <= Len(b.rows) THEN b.rows[i] ELSE NaNs(Width(b.rows)))]]

RECURSIVE KeepFirst(_, _)
KeepFirst(rows, seen) ==
    IF rows = <<>> THEN <<>>
    ELSE IF \E j \in 1..Len(seen) : seen[j] = Head(rows)
         THEN KeepFirst(Tail(rows), seen)
         ELSE <<Head(rows)>> \o KeepFirst(Tail(rows), Append(seen, Head(rows)))

\* df.drop_duplicates(): a row equal in every column to an earlier row goes
drop_duplicates(df) == [rows |-> KeepFirst(df.rows, <<>>)]

\* df[handle_col] = handle: the column is added after the existing ones the
\* first time and overwritten in place afterwards (it stays second, the
\* first frame having one record per row)
HandleCell == [handle |-> TRUE]

SetHandleCol(df) ==
    [rows |-> [i \in 1..Len(df.rows) |->
        IF Width(df.rows) = 1 THEN Append(df.rows[i], HandleCell)
        ELSE [df.rows[i] EXCEPT ![2] = HandleCell]]]

-----------------------------------------------------------------------------
(* twitteralchemy: to_dict() of a record *)

\* twalc.Tweet(**tw).to_dict(): the flat row of a tweet
TweetToDict(tw) == [id |-> tw.id]

ToDicts(list) == [i \in 1..Len(list) |-> TweetToDict(list[i])]

-----------------------------------------------------------------------------
(* __parse_tweet_links *)

RECURSIVE LinksOfRefsChildAsParent(_, _)
LinksOfRefsChildAsParent(tweet, refs) ==
    IF refs = <<>> THEN <<>>
    ELSE << [parent_id |-> Head(refs).id, id |-> Head(refs).id, type |-> Head(refs).type] >>
         \o LinksOfRefsChildAsParent(tweet, Tail(refs))

RECURSIVE LinksOfRefs(_, _)
LinksOfRefs(tweet, refs) ==
    IF refs = <<>> THEN <<>>
    ELSE << [parent_id |-> tweet.id, id |-> Head(refs).id, type |-> Head(refs).type] >>
         \o LinksOfRefs(tweet, Tail(refs))

RECURSIVE parse_tweet_links(_)
parse_tweet_links(tweets) ==
    IF tweets = <<>> THEN <<>>
    ELSE (IF Head(tweets).referenced_tweets # None
          THEN LinksOfRefs(Head(tweets), Head(tweets).referenced_tweets.list)
          ELSE <<>>)
         \o parse_tweet_links(Tail(tweets))

-----------------------------------------------------------------------------
(* Output files *)

FileNames == {"ref_tweets", "users", "authors", "media", "ref_links", "tweets", "%s"}

\* df.to_csv(path, ...) / df.to_json(path, ...): the file is replaced by the
\* whole frame
WriteFile(fs, name, df) ==
    [fs EXCEPT ![name] = [format |-> save_format, rows |-> df.rows]]

RECURSIVE ApplyWrites(_, _)
ApplyWrites(fs, ws) ==
    IF ws = <<>> THEN fs
    ELSE ApplyWrites(WriteFile(fs, Head(ws).name, Head(ws).df), Tail(ws))

When(cond, name, df) == IF cond THEN << [name |-> name, df |-> df] >> ELSE <<>>

\* TweetSearch.pull, save_format == 'csv' (lines 129-150)
SearchCsvWrites ==
    When(response.includes.tweets # <<>>, "ref_tweets", df_refs) \o
    When(response.includes.users # <<>>,  "users",      df_users) \o
    When(response.includes.media # <<>>,  "media",      df_media) \o
    When(has_refs,                        "ref_links",  df_links) \o
    When(TRUE,                            "tweets",     df_tweets)

\* Timeline.pull, save_format == 'csv' (lines 111-132)
TimelineCsvWrites ==
    When(response.includes.tweets # <<>>, "ref_tweets", df_refs) \o
    When(response.includes.users # <<>>,  "authors",    df_users) \o
    When(has_refs,                        "ref_links",  df_links) \o
    When(TRUE,                            "tweets",     df_tweets)

\* Timeline.pull, save_format == 'json' (lines 134-143): the tweets go to
\* save_path itself, the name with its %s left in
TimelineJsonWrites ==
    When(response.includes.tweets # <<>>, "ref_tweets", df_refs) \o
    When(response.includes.users # <<>>,  "authors",    df_users) \o
    When(has_refs,                        "ref_links",  df_links) \o
    When(TRUE,                            "%s",         df_tweets)

-----------------------------------------------------------------------------
(* The session *)

max_retries == 5

config  == <<mode, save_format, has_refs, output_handle, max_results, batch_size>>
tables  == <<df_links, df_refs, df_users, df_tweets, df_media>>
fetcher == <<retries, calls, call_token, primary_seen>>

Init ==
    /\ mode \in {"search", "timeline"}
    /\ save_format \in {"csv", "json"}
    /\ has_refs \in BOOLEAN
    /\ output_handle \in (IF mode = "timeline" THEN BOOLEAN ELSE {FALSE})
    /\ \E a \in (IF mode = "search" THEN SessionArgs ELSE { <<0, 100>> }) :
           max_results = a[1] /\ batch_size = a[2]
    /\ batches = <<>> /\ bi = 1 /\ batch = 0
    /\ finished = FALSE
    /\ next_token = NoToken
    /\ num_collected = 0
    /\ df_links = None /\ df_refs = None /\ df_users = None
    /\ df_tweets = None /\ df_media = None
    /\ links = <<>>
    /\ response = None
    /\ retries = 0 /\ calls = 0 /\ call_token = NoToken
    /\ cycles = 0 /\ paces = 0
    /\ primary_seen = 0
    /\ files = [n \in FileNames |-> None]
    /\ flushed = files
    /\ dir_made = FALSE
    /\ err = "none"
    /\ pc = "start"

\* num_batches of line 52
NumBatches(total, cap) == (total \div cap) + 1

\* TweetSearch.pull lines 52-66
Planning ==
    /\ pc = "start" /\ mode = "search"
    /\ NumBatches(max_results, batch_size) >= 1
    /\ batches' = Batches(max_results, batch_size)
    /\ next_token' = NoToken
    /\ num_collected' = 0
    /\ df_links' = None /\ df_refs' = None /\ df_users' = None
    /\ df_tweets' = None /\ df_media' = None
    /\ pc' = "loop"
    /\ UNCHANGED <<config, bi, batch, finished, links, response, fetcher,
                   cycles, paces, files, flushed, dir_made, err>>

\* TweetSearch.pull lines 52-60 with a negative max_results: num_batches is
\* 0 or less, batches is the empty list and batches[-1] = ... raises
\* IndexError
PlanningFails ==
    /\ pc = "start" /\ mode = "search"
    /\ NumBatches(max_results, batch_size) < 1
    /\ err' = "IndexError"
    /\ pc' = "Failed"
    /\ UNCHANGED <<config, batches, bi, batch, finished, next_token,
                   num_collected, tables, links, response, fetcher, cycles, paces,
                   files, flushed, dir_made>>

\* Timeline.pull lines 43-60, get_user succeeds
TimelineSetup ==
    /\ pc = "start" /\ mode = "timeline"
    /\ dir_made' = TRUE
    /\ finished' = FALSE
    /\ next_token' = NoToken
    /\ num_collected' = 0
    /\ df_links' = None /\ df_refs' = None /\ df_users' = None
    /\ df_tweets' = None /\ df_media' = None
    /\ pc' = "loop"
    /\ UNCHANGED <<config, batches, bi, batch, links, response, fetcher,
                   cycles, paces, files, flushed, err>>

TimelineUserLookupFailsAfterMkdir ==
    /\ pc = "start" /\ mode = "timeline"
    /\ dir_made' = TRUE
    /\ err' = "GetUserError"
    /\ pc' = "Failed"
    /\ UNCHANGED <<config, batches, bi, batch, finished, next_token,
                   num_collected, tables, links, response, fetcher, cycles, paces,
                   files, flushed>>

\* Timeline.pull lines 43-47, get_user raises: raise e
TimelineUserLookupFails ==
    /\ pc = "start" /\ mode = "timeline"
    /\ err' = "GetUserError"
    /\ pc' = "Failed"
    /\ UNCHANGED <<config, batches, bi, batch, finished, next_token,
                   num_collected, tables, links, response, fetcher, cycles, paces,
                   files, flushed, dir_made>>

\* `for batch in batches:` takes the next batch (search line 67, 71);
\* `while not finished:` goes round again (timeline line 61, 64)
EnterFetch ==
    /\ pc = "loop"
    /\ IF mode = "search"
       THEN /\ bi <= Len(batches)
            /\ batch' = batches[bi]
            /\ bi' = bi + 1
       ELSE /\ ~finished
            /\ cycles < MaxCycles
            /\ batch' = batch_size
            /\ bi' = bi
    /\ call_token' = next_token
    /\ retries' = 0
    /\ calls' = 0
    /\ cycles' = cycles + 1
    /\ pc' = "call"
    /\ UNCHANGED <<config, batches, finished, next_token, num_collected,
                   tables, links, response, paces, primary_seen, files, flushed,
                   dir_made, err>>

\* the loop ends: batches used up (search), finished (timeline)
LoopEnd ==
    /\ pc = "loop"
    /\ IF mode = "search" THEN bi > Len(batches) ELSE finished
    /\ pc' = "Done"
    /\ UNCHANGED <<config, batches, bi, batch, finished, next_token,
                   num_collected, tables, links, response, fetcher, cycles, paces,
                   files, flushed, dir_made, err>>

CallReturnsTakesCursor ==
    /\ pc = "call" /\ retries < max_retries
    /\ \E r \in Responses : response' = r
    /\ next_token' = response'.next_token
    /\ retries' = 0 /\ calls' = 0
    /\ pc' = "process"
    /\ UNCHANGED <<config, batches, bi, batch, finished,
                   num_collected, tables, links, call_token, cycles, paces,
                   primary_seen, files, flushed, dir_made, err>>

\* search_tweets lines 203-205 / get_tweets lines 174-176: the call returns
CallReturns ==
    /\ pc = "call" /\ retries < max_retries
    /\ \E r \in Responses : response' = r
    /\ retries' = 0 /\ calls' = 0
    /\ pc' = "process"
    /\ UNCHANGED <<config, batches, bi, batch, finished, next_token,
                   num_collected, tables, links, call_token, cycles, paces,
                   primary_seen, files, flushed, dir_made, err>>

\* search_tweets lines 206-210 / get_tweets lines 177-181: TwitterServerError
CallServerError ==
    /\ pc = "call" /\ retries < max_retries
    /\ retries' = retries + 1
    /\ calls' = calls + 1
    /\ UNCHANGED <<config, batches, bi, batch, finished, next_token,
                   num_collected, tables, links, response, call_token, cycles, paces,
                   primary_seen, files, flushed, dir_made, err, pc>>

CallOtherErrorRetried ==
    /\ pc = "call" /\ retries < max_retries
    /\ calls' = calls + 1
    /\ retries' = retries + 1
    /\ err' = "TwitterClientError"
    /\ UNCHANGED <<config, batches, bi, batch, finished, next_token,
                   num_collected, tables, links, response,
                   call_token, cycles, paces, primary_seen, files, flushed, dir_made,
                   pc>>

\* any other exception of the client is not caught and leaves pull
CallOtherError ==
    /\ pc = "call" /\ retries < max_retries
    /\ calls' = calls + 1
    /\ err' = "TwitterClientError"
    /\ pc' = "Failed"
    /\ UNCHANGED <<config, batches, bi, batch, finished, next_token,
                   num_collected, tables, links, response, retries,
                   call_token, cycles, paces, primary_seen, files, flushed, dir_made>>

\* search_tweets line 203 / get_tweets line 174 with retries = max_retries:
\* the while loop ends and the function ends without a return statement, so
\* the caller gets None (retries and calls stay as the record of the fetch
\* until the next one starts)
RetriesExhausted ==
    /\ pc = "call" /\ retries >= max_retries
    /\ response' = None
    /\ pc' = "process"
    /\ UNCHANGED <<config, batches, bi, batch, finished, next_token,
                   num_collected, tables, links, fetcher, cycles, paces, files, flushed,
                   dir_made, err>>

\* search line 83 / timeline line 74: response.data with response None
ResponseIsNone ==
    /\ pc = "process" /\ response = None
    /\ err' = "AttributeError"
    /\ pc' = "Failed"
    /\ UNCHANGED <<config, batches, bi, batch, finished, next_token,
                   num_collected, tables, links, response, fetcher, cycles, paces,
                   files, flushed, dir_made>>

NoTweetsMergesUsers ==
    /\ pc = "process" /\ response # None
    /\ response.data = <<>>
    /\ df_users' =
          IF response.includes.users = <<>> THEN df_users
          ELSE IF df_users = None THEN DataFrame(response.includes.users)
          ELSE drop_duplicates(
                   ConcatAxis0(df_users, DataFrame(response.includes.users)))
    /\ pc' = "paginate"
    /\ UNCHANGED <<config, batches, bi, batch, finished, next_token,
                   num_collected, df_links, df_refs, df_tweets, df_media,
                   links, response, fetcher, cycles, paces, files, flushed,
                   dir_made, err>>

\* `if tweets:` is false (search line 92, timeline line 79)
NoTweets ==
    /\ pc = "process" /\ response # None
    /\ response.data = <<>>
    /\ pc' = "paginate"
    /\ UNCHANGED <<config, batches, bi, batch, finished, next_token,
                   num_collected, tables, links, response, fetcher, cycles, paces,
                   files, flushed, dir_made, err>>

\* df = pd.concat([df, new], axis = 0) if df is not None else new
AppendRows(df, new) == IF df # None THEN ConcatAxis0(df, new) ELSE new

\* df = pd.concat([df, new], axis = 1) if df is not None else new
AppendCols(df, new) == IF df # None THEN ConcatAxis1(df, new) ELSE new

RECURSIVE KeepFirstById(_, _)
KeepFirstById(rows, seen) ==
    IF rows = <<>> THEN <<>>
    ELSE IF \E j \in 1..Len(seen) : seen[j][1].id = Head(rows)[1].id
         THEN KeepFirstById(Tail(rows), seen)
         ELSE <<Head(rows)>> \o KeepFirstById(Tail(rows), Append(seen, Head(rows)))

SearchMergeSecondaryById(df, new) ==
    [rows |-> KeepFirstById(AppendRows(df, DataFrame(new)).rows, <<>>)]

\* the accumulated secondary table after a page (search lines 108-123)
SearchMergeSecondary(df, new) == drop_duplicates(AppendRows(df, DataFrame(new)))

\* the accumulated primary table after a page (search lines 126-127)
SearchMergePrimary(df, tweets) == AppendRows(df, DataFrame(ToDicts(tweets)))

\* the accumulated secondary table after a page (timeline lines 95-102)
TimelineMergeSecondary(df, new) == AppendCols(df, DataFrame(new))

\* the accumulated primary table after a page (timeline lines 105-109)
TimelineMergePrimary(df, tweets) ==
    LET merged == AppendCols(df, DataFrame(ToDicts(tweets)))
    IN  IF output_handle THEN SetHandleCol(merged) ELSE merged

\* TweetSearch.pull lines 92-127
SearchMerge ==
    /\ pc = "process" /\ response # None /\ mode = "search"
    /\ response.data # <<>>
    /\ links' = IF has_refs THEN parse_tweet_links(response.data)
                ELSE links
    /\ df_refs' = IF response.includes.tweets # <<>>
                  THEN SearchMergeSecondary(df_refs, response.includes.tweets)
                  ELSE df_refs
    /\ df_users' = IF response.includes.users # <<>>
                   THEN SearchMergeSecondary(df_users, response.includes.users)
                   ELSE df_users
    /\ df_media' = IF response.includes.media # <<>>
                   THEN SearchMergeSecondary(df_media, response.includes.media)
                   ELSE df_media
    /\ df_links' = IF has_refs
                   THEN SearchMergeSecondary(df_links, links')
                   ELSE df_links
    /\ df_tweets' = SearchMergePrimary(df_tweets, response.data)
    /\ primary_seen' = primary_seen + Len(response.data)
    /\ pc' = "flush"
    /\ UNCHANGED <<config, batches, bi, batch, finished, next_token,
                   num_collected, response, retries, calls, call_token,
                   cycles, paces, files, flushed, dir_made, err>>

\* Timeline.pull lines 79-109
TimelineMerge ==
    /\ pc = "process" /\ response # None /\ mode = "timeline"
    /\ response.data # <<>>
    /\ links' = IF has_refs THEN parse_tweet_links(response.data)
                ELSE links
    /\ df_refs' = IF response.includes.tweets # <<>>
                  THEN TimelineMergeSecondary(df_refs, response.includes.tweets)
                  ELSE df_refs
    /\ df_users' = IF response.includes.users # <<>>
                   THEN TimelineMergeSecondary(df_users, response.includes.users)
                   ELSE df_users
    /\ df_links' = IF has_refs
                   THEN TimelineMergeSecondary(df_links, links')
                   ELSE df_links
    /\ df_tweets' = TimelineMergePrimary(df_tweets, response.data)
    /\ primary_seen' = primary_seen + Len(response.data)
    /\ pc' = "flush"
    /\ UNCHANGED <<config, batches, bi, batch, finished, next_token,
                   num_collected, df_media, response, retries, calls,
                   call_token, cycles, paces, files, flushed, dir_made, err>>

\* the writes of one flush, in order
FlushWrites ==
    IF mode = "search" THEN SearchCsvWrites
    ELSE IF save_format = "csv" THEN TimelineCsvWrites
    ELSE TimelineJsonWrites

\* search lines 129-150 and 164, timeline lines 111-146
Flush ==
    /\ pc = "flush"
    /\ ~(mode = "search" /\ save_format = "json")
    /\ files' = ApplyWrites(files, FlushWrites)
    /\ flushed' = files'
    /\ num_collected' = num_collected + Len(response.data)
    /\ pc' = "paginate"
    /\ UNCHANGED <<config, batches, bi, batch, finished, next_token, tables,
                   links, response, fetcher, cycles, paces, dir_made, err>>

\* one to_csv / to_json of a flush raises (the disk is full, the directory is
\* gone): the writes before it are on disk, the exception leaves pull
FlushFails ==
    /\ pc = "flush"
    /\ ~(mode = "search" /\ save_format = "json")
    /\ \E k \in 0..(Len(FlushWrites) - 1) :
          files' = ApplyWrites(files, SubSeq(FlushWrites, 1, k))
    /\ err' = "OSError"
    /\ pc' = "Failed"
    /\ UNCHANGED <<config, batches, bi, batch, finished, next_token,
                   num_collected, tables, links, response, fetcher, cycles, paces,
                   flushed, dir_made>>

\* search line 153: `if inc_tweets:` names a variable TweetSearch.pull never
\* binds, NameError
SearchJsonFlush ==
    /\ pc = "flush"
    /\ mode = "search" /\ save_format = "json"
    /\ err' = "NameError"
    /\ pc' = "Failed"
    /\ UNCHANGED <<config, batches, bi, batch, finished, next_token,
                   num_collected, tables, links, response, fetcher, cycles, paces,
                   files, flushed, dir_made>>

PaginateNoBreak ==
    /\ pc = "paginate"
    /\ next_token' = response.next_token
    /\ pc' = IF mode = "search" THEN "pace" ELSE "loop"
    /\ UNCHANGED <<config, batches, bi, batch, finished, num_collected,
                   tables, links, response, fetcher, cycles, paces, files, flushed,
                   dir_made, err>>

\* search lines 168-171, timeline lines 150-153
Paginate ==
    /\ pc = "paginate"
    /\ next_token' = response.next_token
    /\ IF response.next_token = NoToken
       THEN IF mode = "search"
            THEN pc' = "Done" /\ finished' = finished
            ELSE pc' = "loop" /\ finished' = TRUE
       ELSE /\ pc' = IF mode = "search" THEN "pace" ELSE "loop"
            /\ finished' = finished
    /\ UNCHANGED <<config, batches, bi, batch, num_collected, tables, links,
                   response, fetcher, cycles, paces, files, flushed, dir_made, err>>

\* search lines 174-175: time.sleep(max(0, 1.0 - elapsed))
Pace ==
    /\ pc = "pace"
    /\ paces' = paces + 1
    /\ pc' = "loop"
    /\ UNCHANGED <<config, batches, bi, batch, finished, next_token,
                   num_collected, tables, links, response, fetcher, cycles,
                   files, flushed, dir_made, err>>

\* the process is interrupted from outside (KeyboardInterrupt, SIGINT): pull
\* has no handler for it and checks no cancellation flag, so the exception
\* leaves pull from wherever it stands, a remote call included
Interrupted ==
    /\ pc \notin {"Done", "Failed"}
    /\ err' = "KeyboardInterrupt"
    /\ pc' = "Failed"
    /\ UNCHANGED <<config, batches, bi, batch, finished, next_token,
                   num_collected, tables, links, response, fetcher, cycles, paces,
                   files, flushed, dir_made>>

Next ==
    \/ Planning
    \/ PlanningFails
    \/ TimelineSetup
    \/ TimelineUserLookupFails
    \/ EnterFetch
    \/ LoopEnd
    \/ CallReturns
    \/ CallServerError
    \/ CallOtherError
    \/ RetriesExhausted
    \/ ResponseIsNone
    \/ NoTweets
    \/ SearchMerge
    \/ TimelineMerge
    \/ Flush
    \/ FlushFails
    \/ SearchJsonFlush
    \/ Paginate
    \/ Pace
    \/ Interrupted

Spec == Init /\ [][Next]_vars

-----------------------------------------------------------------------------
(* The batch schedule on its own, over a range of arguments *)

InitPlan ==
    /\ mode = "search"
    /\ save_format = "csv"
    /\ has_refs = FALSE
    /\ output_handle = FALSE
    /\ max_results \in 1..MaxTotal
    /\ batch_size \in 1..MaxCap
    /\ batches = <<>> /\ bi = 1 /\ batch = 0
    /\ finished = FALSE
    /\ next_token = NoToken
    /\ num_collected = 0
    /\ df_links = None /\ df_refs = None /\ df_users = None
    /\ df_tweets = None /\ df_media = None
    /\ links = <<>>
    /\ response = None
    /\ retries = 0 /\ calls = 0 /\ call_token = NoToken
    /\ cycles = 0 /\ paces = 0
    /\ primary_seen = 0
    /\ files = [n \in FileNames |-> None]
    /\ flushed = files
    /\ dir_made = FALSE
    /\ err = "none"
    /\ pc = "start"

NextPlan == Planning

SpecPlan == InitPlan /\ [][NextPlan]_vars

-----------------------------------------------------------------------------
(* Properties *)

\* the cells of a frame that hold a record with an id
IdCells(df) ==
    IF df = None THEN {}
    ELSE { <<i, j>> \in (1..Len(df.rows)) \X (1..Width(df.rows)) :
              "id" \in DOMAIN df.rows[i][j] }

\* exceptions whose cause lies outside the program: a failed write, an
\* interrupt
OutsideFailures == {"OSError", "KeyboardInterrupt"}

\* a fetch has used up its retries and has ended
GaveUp == retries >= max_retries /\ pc # "call"

\* what the fetch that ended last handed to pull
FetchOutcome ==
    IF cycles = 0 \/ pc = "call" THEN "running"
    ELSE IF err = "TwitterClientError" THEN "raised TwitterClientError"
    ELSE IF response = None THEN "returned None"
    ELSE "returned Response"

\* the file of each accumulated table
UsersFile == IF mode = "search" THEN "users" ELSE "authors"

TableFiles ==
    << [df |-> df_refs,   name |-> "ref_tweets"],
       [df |-> df_users,  name |-> UsersFile],
       [df |-> df_media,  name |-> "media"],
       [df |-> df_links,  name |-> "ref_links"],
       [df |-> df_tweets, name |-> "tweets"] >>

\* C1: for every total > 0 and cap > 0 the batch schedule computed at the
\* start of a search session sums to at least total.
C1_ScheduleCoversTotal ==
    pc = "loop" => SumSeq(batches) >= max_results

\* C1 witness: a schedule of several batches whose last batch was forced up
\* to 10 and paid for by the batch before it.
C1_Witness ==
    /\ pc = "loop"
    /\ Len(batches) >= 3
    /\ max_results % batch_size \in 1..9
    /\ batches[Len(batches)] = min_final_batch
    /\ batches[Len(batches) - 1] < batch_size
    /\ SumSeq(batches) = max_results

\* C2: every element of the batch schedule lies in [10, cap]; when
\* total < 10 the schedule is the single batch 10.
C2_ElementsWithinMinAndCap ==
    pc = "loop" =>
        IF max_results < min_final_batch
        THEN batches = << min_final_batch >>
        ELSE \A i \in 1..Len(batches) :
                 batches[i] >= min_final_batch /\ batches[i] <= batch_size

\* C3: a session whose last page carries no continuation cursor ends in
\* Done: it starts no further remote call and does not fail (other than by
\* a failed write or an interrupt).
C3_NullCursorEndsDone ==
    (response # None /\ response.next_token = NoToken) =>
        /\ pc # "call"
        /\ pc = "Failed" => err \in OutsideFailures

\* C4: every accumulated secondary table (referenced tweets, users, media)
\* holds at most one record per id.
C4_OneRecordPerId ==
    \A df \in {df_refs, df_users, df_media} :
        \A c, d \in IdCells(df) :
            c # d => df.rows[c[1]][c[2]].id # df.rows[d[1]][d[2]].id

\* C5: the accumulated primary table has as many records (rows) as the
\* merged pages had primary records in total.
C5_PrimarySizeIsSum ==
    (IF df_tweets = None THEN 0 ELSE Len(df_tweets.rows)) = primary_seen

\* C6: a fetch whose every attempt failed with a server error has made
\* exactly 5 remote calls, has reported the MaxRetries condition to the
\* session, and has left the session's cursor as it was.
C6_ExhaustionReported ==
    GaveUp =>
        /\ calls = max_retries
        /\ FetchOutcome = "raised MaxRetries"
        /\ next_token = call_token

\* C7: after a fetch has used up its retries the session has not failed:
\* no exception of the program's own making has left pull.
C7_ExhaustionDoesNotFail ==
    GaveUp => (err = "none" \/ err \in OutsideFailures)

\* C8: once a page without primary records has been dealt with, the
\* session's cursor is still the cursor that page was fetched with.
C8_EmptyPageKeepsCursor ==
    (response # None /\ response.data = <<>> /\ pc \in {"pace", "loop", "Done"})
        => next_token = call_token

\* the number of relationship entries of a page's primary records
RECURSIVE RefCount(_)
RefCount(tweets) ==
    IF tweets = <<>> THEN 0
    ELSE (IF Head(tweets).referenced_tweets = None THEN 0
          ELSE Len(Head(tweets).referenced_tweets.list))
         + RefCount(Tail(tweets))

\* C9: without the relationship field no link table is ever built or
\* written; with it, each link made for a page has as parent_id the id of
\* a primary record of that page that carries the link's entry, and there
\* are as many links as relationship entries (a record without entries
\* gives none).
C9_LinkGating ==
    /\ ~has_refs =>
          /\ df_links = None
          /\ links = <<>>
          /\ files["ref_links"] = None
    /\ (has_refs /\ pc = "flush") =>
          /\ Len(links) = RefCount(response.data)
          /\ \A i \in 1..Len(links) :
                \E k \in 1..Len(response.data) :
                    /\ response.data[k].id = links[i].parent_id
                    /\ response.data[k].referenced_tweets # None
                    /\ \E r \in SeqRange(response.data[k].referenced_tweets.list) :
                          r.id = links[i].id /\ r.type = links[i].type

\* C9 witness: a page of one record without and one with relationship
\* entries has been decomposed with the relationship field requested.
C9_Witness ==
    /\ has_refs /\ pc = "flush"
    /\ response.data = <<tw1, tw2>>
    /\ Len(links) = 2

\* C10: when the flush of a page with records is complete, the file of
\* every non-empty accumulated table holds all the records of that table,
\* in either output format.
C10_FlushWritesEveryTable ==
    (pc = "paginate" /\ response.data # <<>>) =>
        \A i \in 1..Len(TableFiles) :
            (TableFiles[i].df # None /\ TableFiles[i].df.rows # <<>>) =>
                /\ files[TableFiles[i].name] # None
                /\ files[TableFiles[i].name].rows = TableFiles[i].df.rows
                /\ files[TableFiles[i].name].format = save_format

\* C11: when a write of a flush has failed, the session has stopped with the
\* exception and the files on disk are those of the last completed flush.
C11_FailedFlushKeepsLastFlush ==
    err = "OSError" => (pc = "Failed" /\ files = flushed)

\* C12: a search session started with max_results <= 0 fails with an
\* argument error while planning: no fetch is started, no file written.
C12_NonPositiveTotalRejected ==
    (mode = "search" /\ max_results <= 0 /\ pc # "start") =>
        /\ pc = "Failed" /\ err # "none"
        /\ cycles = 0
        /\ \A n \in FileNames : files[n] = None

\* C13: in timeline mode, when the handle cannot be resolved the exception
\* leaves pull before pagination: no fetch has been started, the output
\* directory has not been made, no file exists and no table is accumulated.
C13_UnresolvedHandleAborts ==
    err = "GetUserError" =>
        /\ mode = "timeline"
        /\ pc = "Failed"
        /\ cycles = 0 /\ calls = 0
        /\ ~dir_made
        /\ \A n \in FileNames : files[n] = None
        /\ \A df \in {df_links, df_refs, df_users, df_tweets, df_media} : df = None

\* C13 witness: a timeline session whose user lookup has raised.
C13_Witness ==
    mode = "timeline" /\ err = "GetUserError" /\ pc = "Failed"

C15_OnlyPopulatedKindsWritten ==
    pc = "Done" =>
        \A n \in FileNames : files[n] # None => files[n].rows # <<>>

\* C16: an interrupted session has flushed its accumulated tables and ended
\* in Done: it has not stopped inside a call, and the primary file holds
\* every merged record.
C16_CancelledSessionEndsDone ==
    err = "KeyboardInterrupt" =>
        /\ pc = "Done"
        /\ num_collected = primary_seen
        /\ files = flushed

\* C17: for every total > 0 and cap > 0 the batch schedule is
\* n = floor(total / cap) + 1 batches of size cap, the last replaced by
\* r = total mod cap when r >= 10, otherwise by 10 with 10 - r taken from
\* the second-to-last batch when n > 1; plan(250, 100) = [100, 100, 50] and
\* plan(205, 100) = [100, 95, 10].
C17_ScheduleIsReferenceRule ==
    /\ pc = "loop" =>
          LET n == (max_results \div batch_size) + 1
              r == max_results % batch_size
          IN  /\ Len(batches) = n
              /\ \A i \in 1..(n - 2) : batches[i] = batch_size
              /\ batches[n] = IF r >= 10 THEN r ELSE 10
              /\ n > 1 => batches[n - 1] =
                            IF r >= 10 THEN batch_size
                                       ELSE batch_size - (10 - r)
    /\ Batches(250, 100) = <<100, 100, 50>>
    /\ Batches(205, 100) = <<100, 95, 10>>

\* C17 witness: the schedule of total 45 under cap 20, whose remainder 5 is
\* raised to 10 at the cost of the second batch.
C17_Witness ==
    /\ pc = "loop"
    /\ max_results = 45 /\ batch_size = 20
    /\ batches = <<20, 15, 10>>

\* C18: one call at a time, pages in cursor order: while a fetch is being
\* made, and from the end of a flush until the next fetch, every record
\* merged so far has been flushed; the cursor of the page in hand is not
\* taken before that page has been merged and flushed, so until then the
\* session's cursor is still the one the fetch was issued with.
C18_PagesInOrder ==
    /\ pc \in {"call", "paginate", "pace", "loop", "Done"} =>
          /\ num_collected = primary_seen
          /\ files = flushed
    /\ pc \in {"call", "process", "flush"} => next_token = call_token

\* C18 witness: the second fetch of a session is being made after the two
\* records of the first page were merged and flushed.
C18_Witness ==
    /\ pc = "call" /\ cycles = 2
    /\ primary_seen = 2 /\ num_collected = 2
    /\ files["tweets"] # None

\* C19: the first fetch is issued with a null cursor, every later fetch with
\* the continuation token of the most recent page received; a received page
\* without token ends the loop in Done (short of a failed write or an
\* interrupt).
C19_CursorChain ==
    /\ pc = "call" =>
          call_token = IF response = None THEN NoToken
                                          ELSE response.next_token
    /\ (response # None /\ response.next_token = NoToken) =>
          /\ pc \in {"process", "flush", "paginate", "loop", "Done", "Failed"}
          /\ pc = "loop" => (mode = "timeline" /\ finished)
          /\ pc = "Failed" => err \in OutsideFailures

\* C20: a call that fails with an error other than a server error is not
\* repeated: the error leaves the fetch at once, and it alone does not use
\* the budget; the attempts already made in a fetch are exactly its server
\* errors, at most 5, counted from zero in every fetch.
C20_PermanentErrorNotRetried ==
    /\ pc = "call" =>
          /\ err = "none"
          /\ calls = retries
          /\ retries <= max_retries
    /\ err = "TwitterClientError" =>
          /\ pc = "Failed"
          /\ calls = retries + 1
          /\ retries < max_retries

\* C20 witness: a fetch whose third attempt failed with a client error after
\* two server errors.
C20_Witness ==
    err = "TwitterClientError" /\ pc = "Failed" /\ retries = 2 /\ calls = 3

\* C21: in search mode every fetch after the first is started after a pacing
\* wait of its own, so a fetch being made is preceded by one wait per
\* earlier cycle; a cycle whose fetch used up its retries is passed over and
\* the session goes on; no pacing wait follows the cycle that ends the
\* session.
C21_PacingBetweenFetches ==
    (mode = "search" /\ max_results > 0) =>
        /\ pc = "call" => paces = cycles - 1
        /\ GaveUp => (err = "none" \/ err \in OutsideFailures)
        /\ (pc = "Done" /\ cycles >= 1) => paces = cycles - 1

\* C22: a step that leaves the session with a page without primary records
\* in hand (its receipt, its processing, the reading of its cursor, the
\* pacing wait) changes no accumulated table, not the count of collected
\* records and no output file, whatever expansion records the page carries.
C22_EmptyPageFrame ==
    [][(response' # None /\ response'.data = <<>>) =>
           /\ tables' = tables
           /\ num_collected' = num_collected
           /\ files' = files]_vars

\* C22 witness: the second page of a session, without tweets but with
\* users, has been processed and its cursor read after a first page with
\* tweets was merged and written.
C22_Witness ==
    /\ cycles = 2 /\ pc \in {"pace", "loop"}
    /\ response # None /\ response.data = <<>>
    /\ response.includes.users # <<>>
    /\ next_token = response.next_token
    /\ df_tweets # None /\ num_collected > 0
    /\ \E n \in FileNames : files[n] # None

\* the rows of an accumulated table that may still be None
RowsOf(df) == IF df = None THEN <<>> ELSE df.rows

\* the table holds the record
Holds(df, rec) == \E i \in 1..Len(RowsOf(df)) : RowsOf(df)[i] = <<rec>>

\* every row of the table before the step is a row of the table after it
KeptIn(df, dfAfter) ==
    \A i \in 1..Len(RowsOf(df)) :
        \E j \in 1..Len(RowsOf(dfAfter)) : RowsOf(dfAfter)[j] = RowsOf(df)[i]

\* no row of the table equals an earlier row
NoRepeats(df) ==
    \A i, j \in 1..Len(RowsOf(df)) : RowsOf(df)[i] = RowsOf(df)[j] => i = j

\* C23: in a search session no step removes a record from an accumulated
\* table; the merge of a page with primary records leaves every secondary
\* record of the page and every link (parent_id, id, type) of its tweets in
\* the table of its kind, each table without exact repeats; and whenever a
\* page has been dealt with, the collected-record count is the number of
\* rows of the primary table.
C23_MergeComplete ==
    [][mode = "search" =>
        /\ KeptIn(df_refs, df_refs') /\ KeptIn(df_users, df_users')
        /\ KeptIn(df_media, df_media') /\ KeptIn(df_links, df_links')
        /\ KeptIn(df_tweets, df_tweets')
        /\ (pc = "process" /\ pc' = "flush") =>
              /\ \A i \in 1..Len(response.includes.tweets) :
                     Holds(df_refs', response.includes.tweets[i])
              /\ \A i \in 1..Len(response.includes.users) :
                     Holds(df_users', response.includes.users[i])
              /\ \A i \in 1..Len(response.includes.media) :
                     Holds(df_media', response.includes.media[i])
              /\ has_refs =>
                   \A i \in 1..Len(response.data) :
                      LET tw == response.data[i] IN
                      tw.referenced_tweets # None =>
                         \A k \in 1..Len(tw.referenced_tweets.list) :
                            Holds(df_links',
                                  [parent_id |-> tw.id,
                                   id   |-> tw.referenced_tweets.list[k].id,
                                   type |-> tw.referenced_tweets.list[k].type])
              /\ NoRepeats(df_refs') /\ NoRepeats(df_users')
              /\ NoRepeats(df_media') /\ NoRepeats(df_links')
              /\ Len(RowsOf(df_tweets')) =
                     Len(RowsOf(df_tweets)) + Len(response.data)
        /\ pc' \in {"paginate", "pace", "loop", "call", "Done"} =>
              num_collected' = Len(RowsOf(df_tweets'))]_vars

\* C23 witness: a search session has merged two pages of the same two
\* tweets: four primary rows counted, the two links of the tweets once each.
C23_Witness ==
    /\ mode = "search" /\ has_refs /\ pc = "paginate"
    /\ cycles = 2
    /\ num_collected = 4 /\ Len(RowsOf(df_tweets)) = 4
    /\ Len(RowsOf(df_links)) = 2

====
